---------------------------- MODULE Spec2Model ----------------------------
(***************************************************************************)
(* A model of scraper.py: the text-field extractor (extract_int,           *)
(* extract_engagement_section), the table extractor and key derivation     *)
(* inside parse_page, and the report loop of main.                         *)
(*                                                                         *)
(* A Python str is a sequence of one-character strings, so that slicing,   *)
(* str.find, the regular expressions, int() and float() are computed       *)
(* character by character as the interpreter computes them.                *)
(***************************************************************************)
EXTENDS Integers, Sequences, FiniteSets, TLC

VARIABLES
    args,           \* the arguments of the function call under study
    ret,            \* its outcome: pending, a returned value, or a raised exception
    web,            \* what each URL of URLS serves during this run of main
    pc,             \* main's position
    url_index,      \* how many entries of URLS.items() the loop has consumed
    results,        \* main's results["data"]
    success_count,  \* main's success_count
    file,           \* public/data.json as main leaves it
    exit_code       \* the exit status of the process

vars == <<args, ret, web, pc, url_index, results, success_count, file, exit_code>>

fnVars == <<args, ret>>

mainVars == <<web, pc, url_index, results, success_count, file, exit_code>>

---------------------------------------------------------------------------
(* Bounds of the checked input spaces.                                     *)

MaxIntPieces == 3

MaxSecPieces == 3

MaxTitleLen == 3

MaxIndex == 2

MaxRows == 2

MaxCells == 2

MaxTableNodes == 4

MaxTextNodes == 3

---------------------------------------------------------------------------
(* Python values.                                                          *)

None == [kind |-> "None"]

Pending == [kind |-> "pending"]

Return(v) == [kind |-> "return", value |-> v]

Raise(e) == [kind |-> "raise", exc |-> e]

MinOf(S) == CHOOSE x \in S : \A y \in S : x <= y

\* F(v) with v computed once: the assignment of v to a local variable
With(v, F(_)) == CHOOSE r \in {F(x) : x \in {v}} : TRUE

MaxOf(S) == CHOOSE x \in S : \A y \in S : x >= y

---------------------------------------------------------------------------
(* Character classes and str primitives.                                   *)

Whitespace == {" ", "\t", "\n"}

Digit == {"0", "1", "2", "3", "4", "5", "6", "7", "8", "9"}

Digits == <<"0", "1", "2", "3", "4", "5", "6", "7", "8", "9">>

UpperCase == <<"A", "B", "C", "D", "E", "F", "G", "H", "I", "J", "K", "L", "M",
               "N", "O", "P", "Q", "R", "S", "T", "U", "V", "W", "X", "Y", "Z">>

LowerCase == <<"a", "b", "c", "d", "e", "f", "g", "h", "i", "j", "k", "l", "m",
               "n", "o", "p", "q", "r", "s", "t", "u", "v", "w", "x", "y", "z">>

LowerAlnum == {LowerCase[k] : k \in 1..26} \cup Digit

DigitVal(c) == (CHOOSE k \in 1..10 : Digits[k] = c) - 1

\* str.lower(), character by character
lower_char(c) ==
    IF \E k \in 1..26 : UpperCase[k] = c
    THEN LowerCase[CHOOSE k \in 1..26 : UpperCase[k] = c]
    ELSE c

str_lower(s) == [k \in 1..Len(s) |-> lower_char(s[k])]

\* s[a:b] with 0 <= a <= b, as Python clips it to the length of s
Slice(s, a, b) ==
    IF a >= Len(s) THEN <<>>
    ELSE SubSeq(s, a + 1, IF b > Len(s) THEN Len(s) ELSE b)

\* whether sub occurs in s at the 1-based position p
OccursAt(s, p, sub) ==
    /\ p >= 1
    /\ p + Len(sub) - 1 <= Len(s)
    /\ SubSeq(s, p, p + Len(sub) - 1) = sub

\* str.find: the 0-based offset of the first occurrence, or -1
str_find(s, sub) ==
    LET P == {p \in 1..Len(s) : OccursAt(s, p, sub)}
    IN  IF P = {} THEN -1 ELSE MinOf(P) - 1

\* the position after the longest run, from position p on, of characters in C
RunEnd(s, p, C) ==
    MinOf({q \in p..(Len(s) + 1) : q = Len(s) + 1 \/ s[q] \notin C})

\* the position after the longest run, from position p on, of characters not in C
RunEndNot(s, p, C) ==
    MinOf({q \in p..(Len(s) + 1) : q = Len(s) + 1 \/ s[q] \in C})

\* str.split() with no argument: the maximal runs of non-whitespace
RECURSIVE SplitFrom(_, _)
SplitFrom(s, p) ==
    LET a == RunEnd(s, p, Whitespace)
        b == RunEndNot(s, a, Whitespace)
    IN  IF a > Len(s) THEN <<>>
        ELSE <<SubSeq(s, a, b - 1)>> \o SplitFrom(s, b)

str_split(s) == SplitFrom(s, 1)

RECURSIVE str_join(_, _)
str_join(sep, words) ==
    IF words = <<>> THEN <<>>
    ELSE IF Len(words) = 1 THEN words[1]
    ELSE words[1] \o sep \o str_join(sep, Tail(words))

\* str.strip(chars): drop the characters of C at both ends
str_strip(s, C) ==
    LET a == RunEnd(s, 1, C)
        K == {k \in a..Len(s) : s[k] \notin C}
    IN  IF a > Len(s) THEN <<>> ELSE SubSeq(s, a, MaxOf(K))

clean_text(text) == str_strip(str_join(<<" ">>, str_split(text)), Whitespace)

RECURSIVE Concat(_)
Concat(ss) == IF ss = <<>> THEN <<>> ELSE ss[1] \o Concat(Tail(ss))

\* the sequences over S of length at most n
SeqUpTo(S, n) == UNION {[1..k -> S] : k \in 0..n}

---------------------------------------------------------------------------
(* int() and float() on the strings the patterns can capture.              *)

RECURSIVE DigitsValue(_)
DigitsValue(ds) ==
    IF ds = <<>> THEN 0
    ELSE 10 * DigitsValue(SubSeq(ds, 1, Len(ds) - 1)) + DigitVal(ds[Len(ds)])

\* int(s): an optional sign, then digits that single underscores may separate;
\* anything else is a ValueError
py_int(s) ==
    LET signed == s # <<>> /\ s[1] \in {"+", "-"}
        body == IF signed THEN Tail(s) ELSE s
        valid == /\ body # <<>>
                 /\ \A k \in 1..Len(body) : body[k] \in Digit \cup {"_"}
                 /\ body[1] # "_"
                 /\ body[Len(body)] # "_"
                 /\ \A k \in 1..(Len(body) - 1) : ~(body[k] = "_" /\ body[k + 1] = "_")
        n == DigitsValue(SelectSeq(body, LAMBDA c : c \in Digit))
    IN  IF ~valid THEN Raise("ValueError")
        ELSE Return(IF signed /\ s[1] = "-" THEN 0 - n ELSE n)

\* a float as the decimal it denotes: num / 10^exp with no trailing zero in the fraction
Float(num, exp) == [num |-> num, exp |-> exp]

\* float(s) for s made of digits and dots (all that [\d\.]+ captures): the
\* value when s holds at most one dot and at least one digit, else a ValueError
py_float(s) ==
    LET dots == {k \in 1..Len(s) : s[k] = "."}
        valid == /\ \A k \in 1..Len(s) : s[k] \in Digit \cup {"."}
                 /\ Cardinality(dots) <= 1
                 /\ \E k \in 1..Len(s) : s[k] \in Digit
        dot == IF dots = {} THEN Len(s) + 1 ELSE CHOOSE k \in dots : TRUE
        ipart == SubSeq(s, 1, dot - 1)
        fpart == SubSeq(s, dot + 1, Len(s))
        keep == {k \in 1..Len(fpart) : fpart[k] # "0"}
        frac == IF keep = {} THEN <<>> ELSE SubSeq(fpart, 1, MaxOf(keep))
    IN  IF ~valid THEN Raise("ValueError")
        ELSE Return(Float(DigitsValue(ipart \o frac), Len(frac)))

---------------------------------------------------------------------------
(* The regular expressions of the program.  Every quantified class is      *)
(* disjoint from the character that must follow it, so the greedy run is   *)
(* the only way to match and re.search returns the leftmost such match.    *)

NoMatch == [matched |-> FALSE]

Match(start, end, groups) ==
    [matched |-> TRUE, start |-> start, end |-> end, groups |-> groups]

\* a pattern  <label>\s*(<cls>+)  of extract_int's callers; cls is \d or \S,
\* and grouped tells whether the run is a capture group
IntPattern(label, cls, grouped) == [label |-> label, cls |-> cls, grouped |-> grouped]

TotalLabel == <<"T", "o", "t", "a", "l", " ", "s", "e", "g", "m", "e", "n", "t", "s", ":">>

ChillSegLabel == <<"C", "h", "i", "l", "l", " ", "m", "o", "d", "e", " ",
                   "s", "e", "g", "m", "e", "n", "t", "s", ":">>

ExpSegLabel == <<"E", "x", "p", "e", "r", "i", "m", "e", "n", "t", "a", "l", " ",
                 "m", "o", "d", "e", " ", "s", "e", "g", "m", "e", "n", "t", "s", ":">>

TotalPattern == IntPattern(TotalLabel, "\\d", TRUE)

ChillSegPattern == IntPattern(ChillSegLabel, "\\d", TRUE)

ExpSegPattern == IntPattern(ExpSegLabel, "\\d", TRUE)

\* a match of  <label>\s*(<cls>+)  that starts at position p (1-based)
IntMatchAt(pattern, s, p) ==
    IF ~OccursAt(s, p, pattern.label) THEN NoMatch
    ELSE LET a == RunEnd(s, p + Len(pattern.label), Whitespace)
             b == IF pattern.cls = "\\d" THEN RunEnd(s, a, Digit)
                  ELSE RunEndNot(s, a, Whitespace)
         IN  IF b = a THEN NoMatch
             ELSE Match(p - 1, b - 1,
                        IF pattern.grouped THEN <<SubSeq(s, a, b - 1)>> ELSE <<>>)

\* a match of  <label>\s*([\d\.]+)%\s*\(([^\)]+)\)  that starts at position p
PctMatchAt(label, s, p) ==
    IF ~OccursAt(s, p, label) THEN NoMatch
    ELSE LET a == RunEnd(s, p + Len(label), Whitespace)
             b == RunEnd(s, a, Digit \cup {"."})
             c == RunEnd(s, b + 1, Whitespace)
             d == RunEndNot(s, c + 1, {")"})
         IN  IF b = a \/ b > Len(s) \/ s[b] # "%" THEN NoMatch
             ELSE IF c > Len(s) \/ s[c] # "(" THEN NoMatch
             ELSE IF d = c + 1 \/ d > Len(s) THEN NoMatch
             ELSE Match(p - 1, d, <<SubSeq(s, a, b - 1), SubSeq(s, c + 1, d - 1)>>)

\* re.search(pattern, text) for extract_int's patterns
re_search_int(pattern, text) ==
    LET P == {p \in 1..Len(text) : IntMatchAt(pattern, text, p).matched}
    IN  IF P = {} THEN NoMatch ELSE IntMatchAt(pattern, text, MinOf(P))

\* re.search(pattern, text) for the three engagement patterns
re_search_pct(label, text) ==
    LET P == {p \in 1..Len(text) : PctMatchAt(label, text, p).matched}
    IN  IF P = {} THEN NoMatch ELSE PctMatchAt(label, text, MinOf(P))

---------------------------------------------------------------------------
(* extract_int                                                             *)

extract_int(pattern, text, default) ==
    With(re_search_int(pattern, text), LAMBDA match :
        IF ~match.matched THEN Return(default)
        ELSE IF match.groups = <<>> THEN Raise("IndexError")
        ELSE py_int(match.groups[1]))

---------------------------------------------------------------------------
(* extract_engagement_section                                              *)

HeadingOpen == <<"E", "n", "g", "a", "g", "e", "m", "e", "n", "t", " ", "R", "a", "t", "e",
                 " ", "A", "n", "a", "l", "y", "s", "i", "s", " ", "(">>

OverallLabel == <<"O", "v", "e", "r", "a", "l", "l", " ", "e", "n", "g", "a", "g", "e",
                  "m", "e", "n", "t", " ", "r", "a", "t", "e", ":">>

ChillLabel == <<"C", "h", "i", "l", "l", " ", "m", "o", "d", "e", ":">>

ExpLabel == <<"E", "x", "p", "e", "r", "i", "m", "e", "n", "t", "a", "l", " ",
              "m", "o", "d", "e", ":">>

\* f"Engagement Rate Analysis ({section_name})"
Heading(section_name) == HeadingOpen \o section_name \o <<")">>

WindowSize == 500

\* the window taken to the end of the text
section_text_unbounded(text, section_start) == Slice(text, section_start, Len(text))

\* text[section_start:section_start + 500]
section_text(text, section_start) == Slice(text, section_start, section_start + WindowSize)

\* float(m.group(1)) if m else 0.0
FloatOrDefault(m) == IF m.matched THEN py_float(m.groups[1]) ELSE Return(Float(0, 0))

\* m.group(2) if m else ""
DetailOrDefault(m) == IF m.matched THEN m.groups[2] ELSE <<>>

\* the record built from the three matches, or the ValueError of a float()
section_record(section_name, extract_overall, extract_chill, extract_exp) ==
    LET overall == FloatOrDefault(extract_overall)
        chill == FloatOrDefault(extract_chill)
        exp == FloatOrDefault(extract_exp)
    IN  IF overall.kind = "raise" \/ chill.kind = "raise" \/ exp.kind = "raise"
        THEN Raise("ValueError")
        ELSE Return([title |-> Heading(section_name),
                     overall |-> overall.value,
                     overall_detail |-> DetailOrDefault(extract_overall),
                     chill_mode |-> chill.value,
                     chill_mode_detail |-> DetailOrDefault(extract_chill),
                     experimental_mode |-> exp.value,
                     experimental_mode_detail |-> DetailOrDefault(extract_exp)])

\* the function from the search of the window on
search_section(section_name, window) ==
    With(re_search_pct(OverallLabel, window), LAMBDA extract_overall :
        IF ~extract_overall.matched THEN Return(None)
        ELSE With(re_search_pct(ChillLabel, window), LAMBDA extract_chill :
             With(re_search_pct(ExpLabel, window), LAMBDA extract_exp :
                 section_record(section_name, extract_overall, extract_chill,
                                extract_exp))))

extract_engagement_section(section_name, text) ==
    With(str_find(text, Heading(section_name)), LAMBDA section_start :
        IF section_start = -1 THEN Return(None)
        ELSE With(section_text(text, section_start), LAMBDA window :
                 search_section(section_name, window)))

---------------------------------------------------------------------------
(* Idle values of the variables a specification does not use.              *)

MainIdle ==
    /\ web = <<>>
    /\ pc = "idle"
    /\ url_index = 0
    /\ results = <<>>
    /\ success_count = 0
    /\ file = None
    /\ exit_code = None

FnIdle ==
    /\ args = [fn |-> "none"]
    /\ ret = Pending

Returned == ret.kind = "return"

---------------------------------------------------------------------------
(* Specification of extract_int: any pattern of the family, any text built *)
(* from the pieces, any default.                                           *)

IntPieces ==
    { TotalLabel, ChillSegLabel, <<" ">>, <<"\n">>, <<"1", "2">>, <<"0", "7">>,
      <<"n", "/", "a">> }

IntPatterns ==
    { TotalPattern, ChillSegPattern, ExpSegPattern,
      IntPattern(TotalLabel, "\\S", TRUE), IntPattern(TotalLabel, "\\d", FALSE) }

IntTexts == {Concat(ps) : ps \in SeqUpTo(IntPieces, MaxIntPieces)}

Init_extract_int ==
    /\ args \in [fn : {"extract_int"}, pattern : IntPatterns, text : IntTexts,
                 default : {0, 0 - 1}]
    /\ ret = Pending
    /\ MainIdle

Call_extract_int ==
    /\ args.fn = "extract_int"
    /\ ret = Pending
    /\ ret' = extract_int(args.pattern, args.text, args.default)
    /\ UNCHANGED <<args, mainVars>>

Spec_extract_int == Init_extract_int /\ [][Call_extract_int]_vars

\* C5: for any pattern, text and default extract_int never raises; it returns
\* the default when the pattern matches nowhere, and the first capture group
\* read as an integer when it matches.
C5_ExtractIntNeverRaises ==
    (args.fn = "extract_int" /\ ret # Pending) =>
        /\ Returned
        /\ LET m == re_search_int(args.pattern, args.text)
           IN  IF ~m.matched THEN ret.value = args.default
               ELSE /\ m.groups # <<>>
                    /\ ret = py_int(m.groups[1])

---------------------------------------------------------------------------
(* Specification of extract_engagement_section: both section names, any    *)
(* text built from headings, field lines and filler.                       *)

SectionNames == { <<"t", "i", "m", "e">>, <<"d", "i", "s", "t", "a", "n", "c", "e">> }

\* "<label> <number>% (<detail>) "
PctLine(label, number, detail) ==
    label \o <<" ">> \o number \o <<"%", " ", "(">> \o detail \o <<")", " ">>

Filler(n) == [k \in 1..n |-> "x"]

SecPieces ==
    { Heading(<<"t", "i", "m", "e">>) \o <<" ">>,
      Heading(<<"d", "i", "s", "t", "a", "n", "c", "e">>) \o <<" ">>,
      PctLine(OverallLabel, <<"4", "2", ".", "5">>, <<"a">>),
      PctLine(OverallLabel, <<"1", ".", "2", ".", "3">>, <<"x">>),
      PctLine(ChillLabel, <<"3", "0", ".", "0">>, <<"c">>),
      PctLine(ExpLabel, <<"7">>, <<"e">>),
      Filler(240), Filler(450), Filler(500) }

SecTexts == {Concat(ps) : ps \in SeqUpTo(SecPieces, MaxSecPieces)}

Init_extract_engagement_section ==
    /\ args \in [fn : {"extract_engagement_section"}, section_name : SectionNames,
                 text : SecTexts]
    /\ ret = Pending
    /\ MainIdle

Call_extract_engagement_section ==
    /\ args.fn = "extract_engagement_section"
    /\ ret = Pending
    /\ ret' = extract_engagement_section(args.section_name, args.text)
    /\ UNCHANGED <<args, mainVars>>

Spec_extract_engagement_section ==
    Init_extract_engagement_section /\ [][Call_extract_engagement_section]_vars

\* every match of an engagement pattern anywhere in text
PctMatches(label, text) ==
    {PctMatchAt(label, text, p) : p \in 1..Len(text)} \ {NoMatch}

\* whether a match of the pattern lies entirely in text[lo:hi]
MatchedWithin(label, text, lo, hi) ==
    \E m \in PctMatches(label, text) : m.start >= lo /\ m.end <= hi

\* whether value and detail are those of a match lying entirely in text[lo:hi]
TakenFrom(label, value, detail, text, lo, hi) ==
    \E m \in PctMatches(label, text) :
        /\ m.start >= lo
        /\ m.end <= hi
        /\ py_float(m.groups[1]) = Return(value)
        /\ m.groups[2] = detail

AnyHeading == SubSeq(HeadingOpen, 1, Len(HeadingOpen) - 2)

\* the offset of the first "Engagement Rate Analysis" after offset start, or len(text)
NextHeading(text, start) ==
    LET P == {p \in (start + 2)..Len(text) : OccursAt(text, p, AnyHeading)}
    IN  IF P = {} THEN Len(text) ELSE MinOf(P) - 1

SectionCall == args.fn = "extract_engagement_section" /\ ret # Pending

HeadingAt == str_find(args.text, Heading(args.section_name))

\* C4: a record is returned exactly when the heading occurs and the overall
\* pattern matches entirely inside the 500 characters from the heading's first
\* occurrence; otherwise nothing is returned; chill and experimental fields
\* that did not match in that window are 0.0 and "".
C4_RecordIffOverallInWindow ==
    SectionCall =>
        /\ Returned
        /\ (ret.value # None) <=>
              (/\ HeadingAt # -1
               /\ MatchedWithin(OverallLabel, args.text, HeadingAt, HeadingAt + 500))
        /\ ret.value # None =>
              /\ ~MatchedWithin(ChillLabel, args.text, HeadingAt, HeadingAt + 500) =>
                    /\ ret.value.chill_mode = Float(0, 0)
                    /\ ret.value.chill_mode_detail = <<>>
              /\ ~MatchedWithin(ExpLabel, args.text, HeadingAt, HeadingAt + 500) =>
                    /\ ret.value.experimental_mode = Float(0, 0)
                    /\ ret.value.experimental_mode_detail = <<>>

\* the fields of a returned record that hold a match, each with its label
MatchedFields(r) ==
    { [label |-> OverallLabel, value |-> r.overall, detail |-> r.overall_detail] }
    \cup (IF r.chill_mode_detail = <<>> THEN {}
          ELSE { [label |-> ChillLabel, value |-> r.chill_mode,
                  detail |-> r.chill_mode_detail] })
    \cup (IF r.experimental_mode_detail = <<>> THEN {}
          ELSE { [label |-> ExpLabel, value |-> r.experimental_mode,
                  detail |-> r.experimental_mode_detail] })

GotRecord == SectionCall /\ Returned /\ ret.value # None

---------------------------------------------------------------------------
(* The table extractor of parse_page.                                      *)

\* a Python dict as a function; d[k] = v
Put(d, k, v) == [x \in (DOMAIN d) \cup {k} |-> IF x = k THEN v ELSE d[x]]

EmptyDict == <<>>

\* str(n) for n >= 0
RECURSIVE Str(_)
Str(n) == IF n < 10 THEN <<Digits[n + 1]>> ELSE Str(n \div 10) \o <<Digits[(n % 10) + 1]>>

\* re.sub(r"[^a-z0-9]+", "_", s) from position p on
RECURSIVE SubNonAlnumFrom(_, _)
SubNonAlnumFrom(s, p) ==
    IF p > Len(s) THEN <<>>
    ELSE IF s[p] \in LowerAlnum THEN <<s[p]>> \o SubNonAlnumFrom(s, p + 1)
    ELSE <<"_">> \o SubNonAlnumFrom(s, RunEndNot(s, p, LowerAlnum))

re_sub_non_alnum(s) == SubNonAlnumFrom(s, 1)

\* the slug of a title: lowercased, runs outside [a-z0-9] replaced, underscores stripped
slug(title) == str_strip(re_sub_non_alnum(str_lower(title)), {"_"})

\* f"table_{i}"
fallback_key(i) == <<"t", "a", "b", "l", "e", "_">> \o Str(i)

\* f"Table {i + 1}"
fallback_title(i) == <<"T", "a", "b", "l", "e", " ">> \o Str(i + 1)

\* the key without the strip("_")
derive_key_unstripped(title, i) ==
    IF re_sub_non_alnum(str_lower(title)) = <<>> THEN fallback_key(i)
    ELSE re_sub_non_alnum(str_lower(title))

\* key = re.sub(...).strip("_") or f"table_{i}"
derive_key(title, i) == IF slug(title) = <<>> THEN fallback_key(i) ELSE slug(title)

\* a cell of a table row
Cell(tag, text) == [tag |-> tag, text |-> text]

\* row.select("td")
select_td(row) == SelectSeq(row, LAMBDA c : c.tag = "td")

\* [clean_text(th.get_text()) for th in rows[0].select("th, td")]
header_row(rows) == [j \in 1..Len(rows[1]) |-> clean_text(rows[1][j].text)]

\* min(len(headers), len(cells))
PairCount(headers, cells) == IF Len(headers) < Len(cells) THEN Len(headers) ELSE Len(cells)

\* {headers[j]: clean_text(cells[j].get_text()) for j in range(n)}, built left to right
RECURSIVE RowObjUpTo(_, _, _)
RowObjUpTo(headers, cells, n) ==
    IF n = 0 THEN EmptyDict
    ELSE Put(RowObjUpTo(headers, cells, n - 1), headers[n], clean_text(cells[n].text))

\* the mapping in which the first cell under a repeated header is the one kept
RECURSIVE RowObjFirstWins(_, _, _)
RowObjFirstWins(headers, cells, n) ==
    IF n = 0 THEN EmptyDict
    ELSE LET d == RowObjFirstWins(headers, cells, n - 1)
         IN  IF headers[n] \in DOMAIN d THEN d
             ELSE Put(d, headers[n], clean_text(cells[n].text))

row_obj_first_wins(headers, cells) ==
    RowObjFirstWins(headers, cells, PairCount(headers, cells))

row_obj(headers, cells) == RowObjUpTo(headers, cells, PairCount(headers, cells))

\* the loop over rows[1:], from row r on
RECURSIVE TableRowsFrom(_, _, _)
TableRowsFrom(rows, headers, r) ==
    IF r > Len(rows) THEN <<>>
    ELSE LET cells == select_td(rows[r])
             rest == TableRowsFrom(rows, headers, r + 1)
         IN  IF cells = <<>> THEN rest
             ELSE IF row_obj(headers, cells) = EmptyDict THEN rest
             ELSE <<row_obj(headers, cells)>> \o rest

table_rows(rows) == TableRowsFrom(rows, header_row(rows), 2)

\* the record stored for a table that has rows
table_record(title, rows) ==
    [title |-> title, headers |-> header_row(rows), rows |-> table_rows(rows)]

---------------------------------------------------------------------------
(* Specification of the key derivation: cleaned titles over a small        *)
(* alphabet, and a few whole titles, at small table indexes and at 12.     *)

TitleChars == {"A", "b", "2", "-", "_", " "}

RawTitles ==
    SeqUpTo(TitleChars, MaxTitleLen)
    \cup { <<"T", "a", "b", "l", "e", " ", "2">>,
           <<"T", "a", "b", "l", "e", " ", "1">>,
           <<"R", "a", "t", "e", " ", "(", "%", ")">> }

\* a title is clean_text of a heading (or the fallback title)
Titles == {clean_text(t) : t \in RawTitles}

Init_derive_key ==
    /\ args \in [fn : {"derive_key"}, title : Titles, i : (0..MaxIndex) \cup {12}]
    /\ ret = Pending
    /\ MainIdle

Call_derive_key ==
    /\ args.fn = "derive_key"
    /\ ret = Pending
    /\ ret' = Return(derive_key(args.title, args.i))
    /\ UNCHANGED <<args, mainVars>>

Spec_derive_key == Init_derive_key /\ [][Call_derive_key]_vars

KeyCall == args.fn = "derive_key" /\ ret # Pending

\* whether some character of the title lowercases into [a-z0-9]
HasAlnum(title) == \E k \in 1..Len(title) : lower_char(title[k]) \in LowerAlnum

\* the properties of a key that C6 states apart from when the fallback is used
KeyWellFormed(key, i) ==
    /\ key # <<>>
    /\ \A k \in 1..Len(key) : key[k] \in LowerAlnum \cup {"_"}
    /\ key[1] # "_"
    /\ key[Len(key)] # "_"
    /\ derive_key(key, i) = key

TableI(i) == <<"t", "a", "b", "l", "e", "_">> \o Str(i)

\* C6 as claimed: the key is non-empty, over [a-z0-9_], without an underscore
\* at either end, a fixed point of the derivation, and equal to "table_" + i
\* exactly when no character of the title lowercases into [a-z0-9].
C6_KeyFallbackExactly ==
    KeyCall =>
        /\ KeyWellFormed(ret.value, args.i)
        /\ (ret.value = TableI(args.i)) <=> ~HasAlnum(args.title)

\* C6 as amended: the same, with the key equal to "table_" + i whenever no
\* character of the title lowercases into [a-z0-9] (a title such as "Table 2"
\* at index 2 derives that key too).
C6_KeyWellFormed ==
    KeyCall =>
        /\ KeyWellFormed(ret.value, args.i)
        /\ ~HasAlnum(args.title) => ret.value = TableI(args.i)

\* C6 witness: a non-empty title without alphanumerics got the fallback key
\* at a positive index.
C6_Witness ==
    /\ KeyCall
    /\ args.title # <<>>
    /\ ~HasAlnum(args.title)
    /\ args.i > 0
    /\ ret.value = TableI(args.i)

---------------------------------------------------------------------------
(* Specification of the row extraction: a header row and data rows.        *)

HeaderCells == { Cell("th", <<"A">>), Cell("td", <<" ", "B", "\n">>) }

DataCells == { Cell("td", <<" ", "x", "\n">>), Cell("td", <<"y">>) }

HeaderRows == SeqUpTo(HeaderCells, MaxCells)

\* rows of data cells, and rows that start with a row header
DataRows ==
    SeqUpTo(DataCells, MaxCells)
    \cup { <<Cell("th", <<"z">>)>>, <<Cell("th", <<"z">>), Cell("td", <<"y">>)>> }

\* the tables that have at least one row
Tables == {<<h>> \o ds : h \in HeaderRows, ds \in SeqUpTo(DataRows, MaxRows)}

Init_table_record ==
    /\ args \in [fn : {"table_record"}, title : {fallback_title(0)}, rows : Tables]
    /\ ret = Pending
    /\ MainIdle

Call_table_record ==
    /\ args.fn = "table_record"
    /\ ret = Pending
    /\ ret' = Return(table_record(args.title, args.rows))
    /\ UNCHANGED <<args, mainVars>>

Spec_table_record == Init_table_record /\ [][Call_table_record]_vars

RowsCall == args.fn = "table_record" /\ ret # Pending

\* the td cells of a row, in order
TdCells(row) == SelectSeq(row, LAMBDA c : c.tag = "td")

\* the later rows that have a data cell and get a non-empty mapping
Qualifying(rows) ==
    {k \in 2..Len(rows) : TdCells(rows[k]) # <<>> /\ rows[1] # <<>>}

\* the n-th qualifying row
NthQualifying(rows, n) ==
    CHOOSE k \in Qualifying(rows) : Cardinality({q \in Qualifying(rows) : q < k}) = n - 1

\* C7: the first row's cells are the headers; rows holds, in document order,
\* one mapping per later row with a data cell and a non-empty mapping; the
\* mapping pairs header j with data cell j below min(header_count, cell_count),
\* the later cell winning under a repeated header.
C7_RowExtraction ==
    RowsCall =>
        LET rows == args.rows
            r == ret.value
        IN  /\ Len(r.headers) = Len(rows[1])
            /\ \A j \in 1..Len(rows[1]) : r.headers[j] = clean_text(rows[1][j].text)
            /\ Len(r.rows) = Cardinality(Qualifying(rows))
            /\ \A n \in 1..Len(r.rows) :
                  LET cells == TdCells(rows[NthQualifying(rows, n)])
                      m == IF Len(rows[1]) < Len(cells) THEN Len(rows[1]) ELSE Len(cells)
                  IN  /\ DOMAIN r.rows[n] = {r.headers[j] : j \in 1..m}
                      /\ \A j \in 1..m :
                            (\A j2 \in (j + 1)..m : r.headers[j2] # r.headers[j]) =>
                                r.rows[n][r.headers[j]] = clean_text(cells[j].text)

\* C7 witness: two data rows were mapped under a repeated header label, one of
\* them with fewer cells than headers and one with two different cells.
C7_Witness ==
    /\ RowsCall
    /\ Len(ret.value.rows) = 2
    /\ Len(ret.value.headers) = 2
    /\ ret.value.headers[1] = ret.value.headers[2]
    /\ \E k \in 2..Len(args.rows) : Len(TdCells(args.rows[k])) = 1
    /\ \E k \in 2..Len(args.rows) :
          /\ Len(TdCells(args.rows[k])) = 2
          /\ TdCells(args.rows[k])[1] # TdCells(args.rows[k])[2]

---------------------------------------------------------------------------
(* parse_page.  A document is the sequence of its elements in document     *)
(* order: h1, h2 and p elements with their text, tables with their rows.   *)

Elem(tag, text) == [tag |-> tag, text |-> text]

TableElem(rows) == [tag |-> "table", rows |-> rows]

PyStr(s) == [kind |-> "str", s |-> s]

\* the text of one element, as get_text() concatenates it
elem_text(e) ==
    IF e.tag = "table"
    THEN Concat([r \in 1..Len(e.rows) |->
                    Concat([c \in 1..Len(e.rows[r]) |-> e.rows[r][c].text])])
    ELSE e.text

\* soup.get_text()
get_text(doc) == Concat([k \in 1..Len(doc) |-> elem_text(doc[k])])

\* re.search(r"\['([^']+)'", page_title)
re_search_bracket(s) ==
    LET P == {p \in 1..Len(s) :
                /\ OccursAt(s, p, <<"[", "'">>)
                /\ RunEndNot(s, p + 2, {"'"}) > p + 2
                /\ RunEndNot(s, p + 2, {"'"}) <= Len(s)}
        p0 == MinOf(P)
    IN  IF P = {} THEN NoMatch
        ELSE Match(p0 - 1, RunEndNot(s, p0 + 2, {"'"}),
                   <<SubSeq(s, p0 + 2, RunEndNot(s, p0 + 2, {"'"}) - 1)>>)

\* data["metadata"]
metadata(url, doc) ==
    LET H == {k \in 1..Len(doc) : doc[k].tag = "h1"}
        page_title == clean_text(doc[MinOf(H)].text)
        bracket_match == re_search_bracket(page_title)
    IN  IF H = {} THEN [page_title |-> None, url |-> url, branch_name |-> None]
        ELSE [page_title |-> PyStr(page_title),
              url |-> url,
              branch_name |-> IF bracket_match.matched
                              THEN PyStr(bracket_match.groups[1]) ELSE None]

\* the text searched for the labelled fields: soup.get_text(), as it is
body_text(doc) == get_text(doc)

\* data["segments"] and data["sections"] from the five extractions, or the
\* exception one of them raised
fields_record(total, chill, exp, engagement_time, engagement_distance) ==
    LET sections == [k \in (IF engagement_time.value # None
                            THEN {"engagement_time"} ELSE {})
                           \cup (IF engagement_distance.value # None
                                 THEN {"engagement_distance"} ELSE {}) |->
                        IF k = "engagement_time" THEN engagement_time.value
                        ELSE engagement_distance.value]
    IN  IF \/ total.kind = "raise"
           \/ chill.kind = "raise"
           \/ exp.kind = "raise"
           \/ engagement_time.kind = "raise"
           \/ engagement_distance.kind = "raise"
        THEN Raise("ValueError")
        ELSE Return([segments |-> [total |-> total.value,
                                   chill_mode |-> chill.value,
                                   experimental_mode |-> exp.value],
                     sections |-> sections])

\* lines 72 to 82 of parse_page over the text they search
text_fields(text) ==
    With(extract_int(TotalPattern, text, 0), LAMBDA total :
    With(extract_int(ChillSegPattern, text, 0), LAMBDA chill :
    With(extract_int(ExpSegPattern, text, 0), LAMBDA exp :
    With(extract_engagement_section(<<"t", "i", "m", "e">>, text),
         LAMBDA engagement_time :
    With(extract_engagement_section(<<"d", "i", "s", "t", "a", "n", "c", "e">>, text),
         LAMBDA engagement_distance :
        fields_record(total, chill, exp, engagement_time, engagement_distance))))))

\* soup.select("table"): the positions of the tables, in document order
select_tables(doc) ==
    LET T == {k \in 1..Len(doc) : doc[k].tag = "table"}
    IN  [n \in 1..Cardinality(T) |->
            CHOOSE k \in T : Cardinality({q \in T : q < k}) = n - 1]

\* the title of the table at position k, the i-th (from 0) of the document
table_title(doc, k, i) ==
    LET H == {h \in 1..(k - 1) : doc[h].tag = "h2"}
    IN  IF H = {} THEN fallback_title(i) ELSE clean_text(doc[MaxOf(H)].text)

\* data["tables"][key] = {...}, keeping an entry the key already has
store_if_absent(tables, key, record) ==
    IF key \in DOMAIN tables THEN tables ELSE Put(tables, key, record)

\* data["tables"][key] = {...}
store(tables, key, record) == Put(tables, key, record)

\* the loop over enumerate(soup.select("table")), from index i (0-based) on
RECURSIVE TablesLoop(_, _, _, _)
TablesLoop(doc, positions, i, tables) ==
    IF i >= Len(positions) THEN tables
    ELSE LET table == doc[positions[i + 1]]
             title == table_title(doc, positions[i + 1], i)
         IN  IF table.rows = <<>> THEN TablesLoop(doc, positions, i + 1, tables)
             ELSE With(store(tables, derive_key(title, i), table_record(title, table.rows)),
                       LAMBDA stored : TablesLoop(doc, positions, i + 1, stored))

\* data["tables"]
tables_of(doc) ==
    With(select_tables(doc), LAMBDA positions : TablesLoop(doc, positions, 0, EmptyDict))

\* what a URL serves: a failure of requests.get or raise_for_status, a text
\* BeautifulSoup cannot parse, or a document
FetchError == [kind |-> "FetchError"]

ParseError == [kind |-> "ParseError"]

Html(doc) == [kind |-> "html", doc |-> doc]

\* parse_page(url): the record, or None when anything raised
parse_page(url, served) ==
    IF served.kind # "html" THEN None
    ELSE With(body_text(served.doc), LAMBDA text :
         With(text_fields(text), LAMBDA fields :
             IF fields.kind = "raise" THEN None
             ELSE [metadata |-> metadata(url, served.doc),
                   segments |-> fields.value.segments,
                   sections |-> fields.value.sections,
                   tables |-> tables_of(served.doc)]))

---------------------------------------------------------------------------
(* Specification of parse_page on documents of headings and tables.        *)

MasterUrl == "https://commaai.github.io/model_reports/master/analyse_branch.html"

WmiUrl ==
    "https://commaai.github.io/model_reports/a27b3122-733e-4a65-938b-acfebebbe5e8/100/analyse_branch.html"

SampleRows == <<<<Cell("th", <<"A">>)>>, <<Cell("td", <<"x">>)>>>>

TableNodes ==
    { Elem("h2", <<"A", " ", "b">>),
      Elem("h2", <<" ", "a", "-", "b", "\n">>),
      Elem("h2", <<"-", "-", "-">>),
      TableElem(<<>>),
      TableElem(<<<<Cell("th", <<"A">>)>>>>),
      TableElem(SampleRows),
      TableElem(<<<<Cell("th", <<"A">>)>>, <<Cell("td", <<"y">>)>>>>) }

Init_parse_page_tables ==
    /\ args \in [fn : {"parse_page"}, url : {MasterUrl},
                 served : {Html(doc) : doc \in SeqUpTo(TableNodes, MaxTableNodes)}]
    /\ ret = Pending
    /\ MainIdle

Call_parse_page ==
    /\ args.fn = "parse_page"
    /\ ret = Pending
    /\ ret' = Return(parse_page(args.url, args.served))
    /\ UNCHANGED <<args, mainVars>>

Spec_parse_page_tables == Init_parse_page_tables /\ [][Call_parse_page]_vars

PageCall == args.fn = "parse_page" /\ ret # Pending

\* the positions of the document's tables and, for the i-th of them (from 0),
\* its rows, its title and its key
TablePositions(doc) == {k \in 1..Len(doc) : doc[k].tag = "table"}

IndexOf(doc, k) == Cardinality({q \in TablePositions(doc) : q < k})

TitleAt(doc, k) ==
    IF \E h \in 1..(k - 1) : doc[h].tag = "h2"
    THEN clean_text(doc[CHOOSE h \in 1..(k - 1) :
                            /\ doc[h].tag = "h2"
                            /\ \A g \in (h + 1)..(k - 1) : doc[g].tag # "h2"].text)
    ELSE <<"T", "a", "b", "l", "e", " ">> \o Str(IndexOf(doc, k) + 1)

KeyAt(doc, k) == derive_key(TitleAt(doc, k), IndexOf(doc, k))

\* the tables with at least one row that derive key
Deriving(doc, key) ==
    {k \in TablePositions(doc) : doc[k].rows # <<>> /\ KeyAt(doc, k) = key}

\* C8: tables has an entry under k exactly when a table with one or more rows
\* derives k, and the entry is the record of the last such table; a table
\* without rows adds and overwrites nothing, yet counts in the index i of the
\* tables after it.
C8_TablesLastWriteWins ==
    (PageCall /\ ret.value # None) =>
        LET doc == args.served.doc
            tables == ret.value.tables
        IN  /\ \A k \in TablePositions(doc) :
                  doc[k].rows # <<>> => KeyAt(doc, k) \in DOMAIN tables
            /\ \A key \in DOMAIN tables :
                  /\ Deriving(doc, key) # {}
                  /\ LET last == MaxOf(Deriving(doc, key))
                     IN  tables[key] = table_record(TitleAt(doc, last), doc[last].rows)

\* C8 witness: two tables with rows derived the same key, the later one after
\* a table without rows, and the entry is the later table's record.
C8_Witness ==
    /\ PageCall
    /\ ret.value # None
    /\ \E key \in DOMAIN ret.value.tables :
          LET D == Deriving(args.served.doc, key)
          IN  /\ Cardinality(D) = 2
              /\ args.served.doc[MinOf(D)].rows # args.served.doc[MaxOf(D)].rows
              /\ ret.value.tables[key].rows # <<>>
    /\ \E k \in TablePositions(args.served.doc) : args.served.doc[k].rows = <<>>

---------------------------------------------------------------------------
(* Specification of parse_page on documents of text elements.              *)

TextNodes ==
    { Elem("h1", <<"R", "e", "p", "o", "r", "t", " ", "[", "'", "m", "a", "s", "t", "e",
                   "r", "'", ",", " ", "'", "x", "'", "]">>),
      Elem("p", <<"T", "o", "t", "a", "l">>),
      Elem("p", <<" ">>),
      Elem("p", <<"\n">>),
      Elem("p", <<" ", " ">>),
      Elem("p", <<"s", "e", "g", "m", "e", "n", "t", "s", ":", " ", "1", "2">>),
      Elem("p", <<"E", "n", "g", "a", "g", "e", "m", "e", "n", "t", " ", "R", "a", "t", "e">>),
      Elem("p", <<"A", "n", "a", "l", "y", "s", "i", "s", " ", "(", "t", "i", "m", "e", ")", " ">>
                \o PctLine(OverallLabel, <<"4", "2", ".", "5">>, <<"a">>)),
      Elem("p", <<"A", "n", "a", "l", "y", "s", "i", "s", " ", "(", "t", "i", "m", "e", ")", " ">>
                \o PctLine(OverallLabel, <<"1", ".", "2", ".", "3">>, <<"x">>)) }

Init_parse_page_text ==
    /\ args \in [fn : {"parse_page"}, url : {MasterUrl},
                 served : {Html(doc) : doc \in SeqUpTo(TextNodes, MaxTextNodes)}
                          \cup {FetchError, ParseError}]
    /\ ret = Pending
    /\ MainIdle

Spec_parse_page_text == Init_parse_page_text /\ [][Call_parse_page]_vars

\* C3: a document that was fetched and parsed into a tree always yields a
\* ReportRecord: no content of its text or tables makes an extraction step raise.
C3_ParsedDocumentYieldsRecord ==
    (PageCall /\ args.served.kind = "html") => ret.value # None

\* C9: the segment counts and the engagement sections are those found in the
\* document text with every run of whitespace collapsed to one space.
C9_SearchesNormalizedText ==
    (PageCall /\ args.served.kind = "html") =>
        LET expected == text_fields(clean_text(get_text(args.served.doc)))
        IN  expected.kind = "return" =>
                /\ ret.value # None
                /\ ret.value.segments = expected.value.segments
                /\ ret.value.sections = expected.value.sections

---------------------------------------------------------------------------
(* main: the loop over URLS.items(), then the write or the exit.           *)

URLS == << [branch |-> "master", url |-> MasterUrl], [branch |-> "wmi", url |-> WmiUrl] >>

Branches == {URLS[n].branch : n \in 1..Len(URLS)}

Exit(code) == [kind |-> "exit", code |-> code]

\* the loop body's data, when a failed report also empties what was collected
store_result_reset(data, branch, parsed_data) ==
    IF parsed_data # None THEN Put(data, branch, parsed_data) ELSE EmptyDict

\* if parsed_data: results["data"][branch] = parsed_data
store_result(data, branch, parsed_data) ==
    IF parsed_data # None THEN Put(data, branch, parsed_data) ELSE data

\* if parsed_data: success_count += 1
count_result(count, parsed_data) == IF parsed_data # None THEN count + 1 ELSE count

\* the write condition, when every report must have succeeded
should_persist_all(count) == count >= Len(URLS)

\* if success_count > 0
should_persist(count) == count > 0

\* json.dump(results, f, indent=2)
Document(data) == [kind |-> "json", timestamp |-> "now", data |-> data]

\* the documents served in the runs of main that are checked
SampleDocs ==
    { <<>>,
      << Elem("h1", <<"R", "e", "p", "o", "r", "t", " ", "[", "'", "m", "a", "s", "t", "e",
                      "r", "'", "]">>),
         Elem("p", TotalLabel \o <<" ", "1", "2", "0", "0", " ">>),
         Elem("p", Heading(<<"t", "i", "m", "e">>) \o <<" ">>
                   \o PctLine(OverallLabel, <<"4", "2", ".", "5">>, <<"a">>)) >>,
      << Elem("p", Heading(<<"t", "i", "m", "e">>) \o <<" ">>
                   \o PctLine(OverallLabel, <<"1", ".", "2", ".", "3">>, <<"x">>)) >>,
      << Elem("h2", <<"A", " ", "b">>), TableElem(SampleRows) >> }

Served == {FetchError, ParseError} \cup {Html(doc) : doc \in SampleDocs}

Init ==
    /\ web \in [Branches -> Served]
    /\ pc = "loop"
    /\ url_index = 0
    /\ results = EmptyDict
    /\ success_count = 0
    /\ file = None
    /\ exit_code = None
    /\ args = [fn |-> "main"]
    /\ ret = Pending

\* one pass of  for branch, url in URLS.items()
Iterate ==
    /\ pc = "loop"
    /\ url_index < Len(URLS)
    /\ \E parsed_data \in {parse_page(URLS[url_index + 1].url,
                                       web[URLS[url_index + 1].branch])} :
          /\ results' = store_result(results, URLS[url_index + 1].branch, parsed_data)
          /\ success_count' = count_result(success_count, parsed_data)
    /\ url_index' = url_index + 1
    /\ UNCHANGED <<web, pc, file, exit_code, fnVars>>

\* the loop is over and success_count > 0: write public/data.json
Persist ==
    /\ pc = "loop"
    /\ url_index = Len(URLS)
    /\ should_persist(success_count)
    /\ file' = Document(results)
    /\ exit_code' = Exit(0)
    /\ pc' = "done"
    /\ UNCHANGED <<web, url_index, results, success_count, fnVars>>

\* the loop is over and nothing succeeded: exit(1)
ExitFailure ==
    /\ pc = "loop"
    /\ url_index = Len(URLS)
    /\ ~should_persist(success_count)
    /\ exit_code' = Exit(1)
    /\ pc' = "done"
    /\ UNCHANGED <<web, url_index, results, success_count, file, fnVars>>

Next == Iterate \/ Persist \/ ExitFailure

Spec == Init /\ [][Next]_vars

\* the reports whose own fetch and parse succeed in this run
Succeeding == {n \in 1..Len(URLS) : parse_page(URLS[n].url, web[URLS[n].branch]) # None}

C2_ReportsIsolated ==
    /\ pc = "done" => url_index = Len(URLS)
    /\ pc \in {"loop", "done"} =>
          /\ \A n \in 1..url_index :
                LET branch == URLS[n].branch
                    own == parse_page(URLS[n].url, web[branch])
                IN  /\ (branch \in DOMAIN results) <=> (own # None)
                    /\ own # None => results[branch] = own
          /\ \A n \in (url_index + 1)..Len(URLS) : URLS[n].branch \notin DOMAIN results

\* C2 witness: the first report succeeded, the second failed on an exception
\* of an extraction step, and the first report's entry is still there.
C2_Witness ==
    /\ pc = "done"
    /\ "master" \in DOMAIN results
    /\ "wmi" \notin DOMAIN results
    /\ web["wmi"].kind = "html"
    /\ results["master"].tables # EmptyDict

=============================================================================
